---- MODULE Spec2Model ----
(***************************************************************************)
(* Model of src/spore-mod-loader/installer.py: the install() pipeline of   *)
(* SporeModLoaderInstaller and the helpers it calls.  The collaborators    *)
(* (GameFinder, ProtonGEManager, DependencyInstaller, GitHubDownloader,    *)
(* subprocess, the filesystem) are the environment: every call to one of   *)
(* them draws its outcome from a small set.                                *)
(***************************************************************************)
EXTENDS Integers, Sequences, FiniteSets, TLC

\* ------------------------------------------------------------------------
\* Bounds of the model
\* ------------------------------------------------------------------------

\* number of install() calls made by the caller, one after the other
MaxRuns == 2

\* number of pieces (characters or words) of the paths that are translated
MaxPathLen == 4

\* ------------------------------------------------------------------------
\* Values
\* ------------------------------------------------------------------------

\* Python's None, where the other values are strings
None == "None"

\* Python's None, where the other values are Path objects, dicts or files
Absent == <<>>

\* install()'s return values
True == "True"
False == "False"

\* the slots in which a call of install() executes
Runs == {1}

\* Path objects are sequences of components
PrefixesDir == <<"home", "user", "NaK", "Prefixes">>

DefaultPrefixName == "spore_modloader"

\* the values a caller passes as custom_name
CustomNames == {None, "", "my_spore"}

\* what ProtonGEManager.get_active_proton_path() can return
ProtonPath == <<"home", "user", "NaK", "ProtonGE", "active", "proton">>

ProtonOutcomes == {Absent, ProtonPath}

\* the fixed value the code gives LD_LIBRARY_PATH, as the list of its
\* colon-separated entries
FixedLdLibraryPath == <<"/usr/lib", "/usr/lib/x86_64-linux-gnu", "/lib", "/lib/x86_64-linux-gnu">>

\* the ceiling of the registry import's wait, in seconds
RegeditTimeout == 60

\* os.environ of the host process: variable name -> list of entries
HostEnvs ==
    { [HOME |-> <<"/home/user">>],
      [HOME |-> <<"/home/user">>, LD_LIBRARY_PATH |-> <<"/opt/nak/lib", "/usr/lib">>,
       WINEPREFIX |-> <<"/home/user/.wine">>] }

\* game names are sequences of characters
SporeName == <<"S", "p", "o", "r", "e">>
SporeGAName == <<"S", "P", "O", "R", "E", ":", " ", "G", "A">>
SkyrimName == <<"S", "k", "y", "r", "i", "m">>

SporeGame == [name |-> SporeName, path |-> "/games/Spore", platform |-> "steam"]
SporeGAGame == [name |-> SporeGAName, path |-> "/games/SporeGA", platform |-> "heroic"]
SkyrimGame == [name |-> SkyrimName, path |-> "/games/Skyrim", platform |-> "steam"]

\* what GameFinder.find_all_games() can return
GameLists ==
    { <<>>, <<SkyrimGame>>, <<SkyrimGame, SporeGAGame>>, <<SporeGAGame, SkyrimGame, SporeGame>> }

\* the name of the asset download_modapi_installer looks for
InstallerAsset == "ModAPI.InterimSetup.exe"

\* what the asset list of the latest release can be
AssetLists ==
    { <<>>, <<"Source code.zip">>, <<"Source code.zip", InstallerAsset>> }

DownloadedFile == <<"home", "user", "NaK", "cache", InstallerAsset>>

\* percentages a collaborator may send through the progress callback it
\* was handed (at most one per call in this model)
CollabProgress == {<<>>, <<100>>}

\* as PrepareProgress, were the two updates of step 2 and 3 swapped
PrepareProgress_Swapped == <<15, 10>>

\* the percentages install() passes to _send_progress_update, step by step
StartProgress == <<0, 5>>
PrepareProgress == <<10, 15>>
RegistryProgress == <<40>>
FetchProgress == <<50>>
LaunchProgress == <<60>>
DoneProgress == <<100>>

\* ------------------------------------------------------------------------
\* Pure helpers
\* ------------------------------------------------------------------------

\* str.lower() on one character
LowerChar(c) ==
    CASE c = "S" -> "s"
      [] c = "P" -> "p"
      [] c = "O" -> "o"
      [] c = "R" -> "r"
      [] c = "E" -> "e"
      [] c = "G" -> "g"
      [] c = "A" -> "a"
      [] OTHER -> c

\* str.lower()
Lower(s) == [i \in 1..Len(s) |-> LowerChar(s[i])]

\* needle in hay
Contains(hay, needle) ==
    \E i \in 1..(Len(hay) - Len(needle) + 1) :
        SubSeq(hay, i, i + Len(needle) - 1) = needle

\* "spore" in game.name.lower()
IsSpore(game) == Contains(Lower(game.name), <<"s", "p", "o", "r", "e">>)

\* the loop of find_spore_game: the first game of the list that matches
FirstSpore(games) ==
    IF \E i \in 1..Len(games) : IsSpore(games[i])
    THEN LET i == CHOOSE k \in 1..Len(games) :
                      /\ IsSpore(games[k])
                      /\ \A j \in 1..(k - 1) : ~IsSpore(games[j])
         IN <<[name |-> games[i].name, path |-> games[i].path, platform |-> games[i].platform]>>
    ELSE Absent

\* custom_name or "spore_modloader"
PrefixName(custom_name) ==
    IF custom_name /= None /\ custom_name /= "" THEN custom_name ELSE DefaultPrefixName

\* get_prefixes_dir() / prefix_name / "pfx"
PrefixPath(name) == PrefixesDir \o <<name, "pfx">>

\* Path.parent
Parent(path) == SubSeq(path, 1, Len(path) - 1)

\* proton_path.parent / "files" / "bin" / "wine64"
WinePath(proton_path) == Parent(proton_path) \o <<"files", "bin", "wine64">>

\* as GuestLdLibraryPath, were the fixed list appended to the host's
GuestLdLibraryPath_Appended(host) ==
    (IF "LD_LIBRARY_PATH" \in DOMAIN host THEN host["LD_LIBRARY_PATH"] ELSE <<>>)
    \o FixedLdLibraryPath

\* the value the code gives LD_LIBRARY_PATH in the guest's environment
GuestLdLibraryPath(host) == FixedLdLibraryPath

\* env = os.environ.copy(); env["WINEPREFIX"] = ...; env["LD_LIBRARY_PATH"] = ...
GuestEnv(host, prefix_path) ==
    [k \in DOMAIN host \cup {"WINEPREFIX", "LD_LIBRARY_PATH"} |->
        IF k = "WINEPREFIX" THEN <<prefix_path>>
        ELSE IF k = "LD_LIBRARY_PATH" THEN GuestLdLibraryPath(host)
        ELSE host[k]]

\* as NoRuntime, were the check of the runtime left out
NoRuntime_Unchecked(proton) == FALSE

\* if not proton_path
NoRuntime(proton) == proton = Absent

\* what get_active_proton_path() returned, for the record of calls
ProtonOut(proton) == IF proton = Absent THEN "none" ELSE "path"

\* the asset loop of download_modapi_installer
HasInstallerAsset(assets) == \E i \in 1..Len(assets) : assets[i] = InstallerAsset

\* one recorded call of a collaborator: what was called and what came back
Call(op, out) == [op |-> op, out |-> out]

\* the calls of operation op in a trace
CallsOf(tr, op) == {i \in 1..Len(tr) : tr[i].op = op}

\* ------------------------------------------------------------------------
\* State
\* ------------------------------------------------------------------------

VARIABLES
    pc,          \* pc[r]: where run r is in install()
    arg,         \* arg[r]: the arguments of the call
    spore,       \* spore[r]: spore_game, <<the dict find_spore_game returned>> or Absent
    result,      \* result[r]: install()'s return value, None while running
    emitted,     \* emitted[r]: the values install() passed to _send_progress_update
    sink,        \* sink[r]: what the progress callback received, and from whom
    sinkLog,     \* sinkLog[r]: the lines the log callback received from install()
    errLog,      \* errLog[r]: the records sent to self.logger.error
    trace,       \* trace[r]: the collaborator calls of the run, in order
    procs,       \* procs[r]: the guest processes the run spawned
    regFile,     \* regFile[r]: the temporary .reg file the run created, Absent if none
    regOk,       \* regOk[r]: what create_spore_registry returned, None if not called
    start,       \* start[r]: the files that existed when the run started
    prev,        \* prev[r]: <<summary of the call made before this one>>, Absent if none
    dirs,        \* names of the prefixes whose pfx directory exists
    markers,     \* names of the prefixes that hold the dependency marker
    tmpFiles,    \* the temporary files that exist
    tmpCount,    \* how many temporary files were ever created
    hostEnv,     \* os.environ of the process
    guestFiles,  \* the guest binaries that exist under drive_c of the prefix
    scripts,     \* script_output_dir: script name -> the file of that name
    op,          \* the helper called outside install(), with what it gave
    runsStarted  \* how many install() calls were made

vars == <<pc, arg, spore, result, emitted, sink, sinkLog, errLog, trace, procs,
          regFile, regOk, start, prev, dirs, markers, tmpFiles, tmpCount, hostEnv,
          runsStarted, guestFiles, scripts, op>>

\* what the helpers outside install() work on
toolVars == <<guestFiles, scripts, op>>

\* no helper outside install() was called
NoOp == [name |-> "none"]

\* the prefix name of run r
NameOf(r) == PrefixName(arg[r].custom_name)

\* the files install() can create
Files == [dirs |-> dirs, markers |-> markers, tmpFiles |-> tmpFiles]

\* the state after construction: nothing runs; the prefixes directory may
\* hold prefixes of earlier sessions, and a marker lies only in a prefix
\* that exists
InstallIdle ==
    /\ pc = [r \in Runs |-> "idle"]
    /\ arg = [r \in Runs |-> [custom_name |-> None, progress_cb |-> FALSE, log_cb |-> FALSE]]
    /\ spore = [r \in Runs |-> Absent]
    /\ result = [r \in Runs |-> None]
    /\ emitted = [r \in Runs |-> <<>>]
    /\ sink = [r \in Runs |-> <<>>]
    /\ sinkLog = [r \in Runs |-> <<>>]
    /\ errLog = [r \in Runs |-> <<>>]
    /\ trace = [r \in Runs |-> <<>>]
    /\ procs = [r \in Runs |-> <<>>]
    /\ regFile = [r \in Runs |-> Absent]
    /\ regOk = [r \in Runs |-> None]
    /\ dirs \in SUBSET {PrefixName(c) : c \in CustomNames}
    /\ markers \in SUBSET dirs
    /\ tmpFiles = {}
    /\ tmpCount = 0
    /\ start = [r \in Runs |-> Files]
    /\ prev = [r \in Runs |-> Absent]
    /\ hostEnv \in HostEnvs
    /\ runsStarted = 0

\* the state after construction, before any helper was called
Init ==
    /\ InstallIdle
    /\ guestFiles = {}
    /\ scripts = <<>>
    /\ op = NoOp

\* ------------------------------------------------------------------------
\* The sinks and the ways install() goes on
\* ------------------------------------------------------------------------

\* the values vals as the progress callback receives them from src
Sent(src, vals) == [i \in 1..Len(vals) |-> [src |-> src, pct |-> vals[i]]]

\* _send_progress_update(v) for each v of vals: what the progress callback receives
SendProgress(r, vals) == IF arg[r].progress_cb THEN Sent("install", vals) ELSE <<>>

\* a collaborator that was handed self.progress_callback sends vals
CollabSends(r, src, vals) == IF arg[r].progress_cb THEN Sent(src, vals) ELSE <<>>

\* _log_progress(line) for each line of lines: what the log callback receives
LogProgress(r, lines) == IF arg[r].log_cb THEN lines ELSE <<>>

\* self.logger.error(f"{msg}: {detail}")
ErrRec(msg, detail) == [msg |-> msg, detail |-> detail]

\* the outcomes of collaborator calls that are failures
FailureOuts == {"raise", "none", "nospore", "fail", "nonzero", "timeout", "noasset"}

\* whether every call of the trace succeeded
Clean(tr) == \A i \in 1..Len(tr) : tr[i].out \notin FailureOuts

\* what a call of install() that returned leaves for the caller's next call
Summary(r) ==
    [name     |-> NameOf(r),
     result   |-> result[r],
     installs |-> Cardinality(CallsOf(trace[r], "install_dependencies")),
     marked   |-> \E i \in 1..Len(trace[r]) : trace[r][i] = Call("touch_marker", "ok"),
     dir0     |-> \E i \in 1..Len(trace[r]) : trace[r][i] = Call("prefix_exists", "yes"),
     marker0  |-> \E i \in 1..Len(trace[r]) : trace[r][i] = Call("marker_exists", "yes"),
     unmarked |-> \E i \in 1..Len(trace[r]) : trace[r][i] = Call("marker_exists", "no"),
     clean    |-> Clean(trace[r])]

\* install() returns res
Return(r, res, tr) ==
    /\ pc' = [pc EXCEPT ![r] = "done"]
    /\ result' = [result EXCEPT ![r] = res]
    /\ trace' = [trace EXCEPT ![r] = tr]

\* install() goes on at position next
Goto(r, next, tr) ==
    /\ pc' = [pc EXCEPT ![r] = next]
    /\ trace' = [trace EXCEPT ![r] = tr]
    /\ UNCHANGED result

\* as Crash, were the exception to leave install() unlogged
Crash_Propagates(r, tr) ==
    /\ Return(r, "Raised", tr)
    /\ UNCHANGED <<errLog, sinkLog>>

\* the handler of install(): except Exception as e
Crash(r, tr) ==
    /\ errLog' = [errLog EXCEPT ![r] = Append(@, ErrRec("Failed to install Spore Mod Loader", "exception"))]
    /\ sinkLog' = [sinkLog EXCEPT ![r] = @ \o (IF arg[r].log_cb THEN <<"Error: e">> ELSE <<>>)]
    /\ Return(r, False, tr)

\* ------------------------------------------------------------------------
\* install(), step by step
\* ------------------------------------------------------------------------

\* the caller calls install(): the callbacks are set, progress 0 and 5
Start(r) ==
    /\ pc[r] \in {"idle", "done"}
    /\ \A q \in Runs \ {r} : pc[q] \in {"idle", "done"}
    /\ runsStarted < MaxRuns
    /\ \E cn \in CustomNames, pcb \in BOOLEAN, lcb \in BOOLEAN :
        /\ arg' = [arg EXCEPT ![r] = [custom_name |-> cn, progress_cb |-> pcb, log_cb |-> lcb]]
        /\ sink' = [sink EXCEPT ![r] = IF pcb THEN Sent("install", StartProgress) ELSE <<>>]
        /\ sinkLog' = [sinkLog EXCEPT ![r] =
                          IF lcb THEN <<"=== Starting Spore Mod Loader Installation ===">> ELSE <<>>]
    /\ emitted' = [emitted EXCEPT ![r] = StartProgress]
    /\ pc' = [pc EXCEPT ![r] = "locate"]
    /\ result' = [result EXCEPT ![r] = None]
    /\ spore' = [spore EXCEPT ![r] = Absent]
    /\ errLog' = [errLog EXCEPT ![r] = <<>>]
    /\ trace' = [trace EXCEPT ![r] = <<>>]
    /\ procs' = [procs EXCEPT ![r] = <<>>]
    /\ regFile' = [regFile EXCEPT ![r] = Absent]
    /\ regOk' = [regOk EXCEPT ![r] = None]
    /\ start' = [start EXCEPT ![r] = Files]
    /\ prev' = [prev EXCEPT ![r] = IF pc[r] = "done" THEN <<Summary(r)>> ELSE Absent]
    /\ runsStarted' = runsStarted + 1
    /\ UNCHANGED <<dirs, markers, tmpFiles, tmpCount, hostEnv, toolVars>>

\* as FindSporeGame, were install() to go on without a game
FindSporeGame_NoReturn(r, games) ==
    LET found == FirstSpore(games)
        out == IF found = Absent THEN "nospore" ELSE "spore"
    IN /\ spore' = [spore EXCEPT ![r] = found]
       /\ sinkLog' = [sinkLog EXCEPT ![r] = @ \o LogProgress(r,
              <<"Searching for Spore installation...">>)]
       /\ Goto(r, "prepare", Append(trace[r], Call("find_all_games", out)))
       /\ UNCHANGED errLog

\* find_spore_game() when find_all_games() returns games, and install()'s
\* check of what it returned
FindSporeGame(r, games) ==
    LET found == FirstSpore(games)
        out == IF found = Absent THEN "nospore" ELSE "spore"
        tr == Append(trace[r], Call("find_all_games", out))
    IN /\ spore' = [spore EXCEPT ![r] = found]
       /\ UNCHANGED errLog
       /\ IF found = Absent
          THEN /\ sinkLog' = [sinkLog EXCEPT ![r] = @ \o LogProgress(r,
                      <<"Searching for Spore installation...",
                        "Spore installation not found",
                        "ERROR: Spore not found. Please install Spore first.">>)]
               /\ Return(r, False, tr)
          ELSE /\ sinkLog' = [sinkLog EXCEPT ![r] = @ \o LogProgress(r,
                      <<"Searching for Spore installation...", "Found Spore">>)]
               /\ Goto(r, "prepare", tr)

\* find_spore_game() when find_all_games() raises, and install()'s check
FindSporeGameRaises(r) ==
    /\ spore' = [spore EXCEPT ![r] = Absent]
    /\ errLog' = [errLog EXCEPT ![r] = Append(@, ErrRec("Failed to find Spore", "exception"))]
    /\ sinkLog' = [sinkLog EXCEPT ![r] = @ \o LogProgress(r,
           <<"Searching for Spore installation...",
             "ERROR: Spore not found. Please install Spore first.">>)]
    /\ Return(r, False, Append(trace[r], Call("find_all_games", "raise")))

\* Step 1: find the game
LocateGame(r) ==
    /\ pc[r] = "locate"
    /\ \/ \E games \in GameLists : FindSporeGame(r, games)
       \/ FindSporeGameRaises(r)
    /\ UNCHANGED <<arg, emitted, sink, procs, regFile, regOk, start, prev, dirs, markers,
                   tmpFiles, tmpCount, hostEnv, toolVars, runsStarted>>

\* as Mkdir, were the prefixes directory cleared before the new one is made
Mkdir_Fresh(ds, name) == {name}

\* Path.mkdir(parents=True, exist_ok=True) on the prefix directory
Mkdir(ds, name) == ds \cup {name}

\* Step 2: create the Wine prefix, or reuse the one that exists; progress 10 and 15
PrepareSandbox(r) ==
    /\ pc[r] = "prepare"
    /\ \/ /\ NameOf(r) \in dirs
          /\ sinkLog' = [sinkLog EXCEPT ![r] = @ \o LogProgress(r, <<"Using existing Wine prefix">>)]
          /\ emitted' = [emitted EXCEPT ![r] = @ \o PrepareProgress]
          /\ sink' = [sink EXCEPT ![r] = @ \o SendProgress(r, PrepareProgress)]
          /\ Goto(r, "checkdeps", Append(trace[r], Call("prefix_exists", "yes")))
          /\ UNCHANGED <<dirs, errLog>>
       \/ /\ NameOf(r) \notin dirs
          /\ dirs' = Mkdir(dirs, NameOf(r))
          /\ sinkLog' = [sinkLog EXCEPT ![r] = @ \o LogProgress(r, <<"Created Wine prefix">>)]
          /\ emitted' = [emitted EXCEPT ![r] = @ \o PrepareProgress]
          /\ sink' = [sink EXCEPT ![r] = @ \o SendProgress(r, PrepareProgress)]
          /\ Goto(r, "checkdeps",
                  trace[r] \o <<Call("prefix_exists", "no"), Call("mkdir", "ok")>>)
          /\ UNCHANGED errLog
       \/ /\ NameOf(r) \notin dirs
          /\ Crash(r, trace[r] \o <<Call("prefix_exists", "no"), Call("mkdir", "raise")>>)
          /\ UNCHANGED <<dirs, emitted, sink>>
    /\ UNCHANGED <<arg, spore, procs, regFile, regOk, start, prev, markers, tmpFiles, tmpCount,
                   hostEnv, toolVars, runsStarted>>

\* as MarkerExists, were the marker never found
MarkerExists_Never(r) == FALSE

\* dependency_marker.exists()
MarkerExists(r) == NameOf(r) \in markers

\* Step 3, the check: skip the installation when the marker exists
CheckDependencies(r) ==
    /\ pc[r] = "checkdeps"
    /\ IF MarkerExists(r)
       THEN /\ sinkLog' = [sinkLog EXCEPT ![r] = @ \o LogProgress(r,
                   <<"Dependencies already installed, skipping...">>)]
            /\ Goto(r, "registry",
                    Append(trace[r], Call("marker_exists", IF NameOf(r) \in markers THEN "yes" ELSE "no")))
       ELSE /\ sinkLog' = [sinkLog EXCEPT ![r] = @ \o LogProgress(r,
                   <<"Installing Windows dependencies (vcrun2022, d3dcompiler_43)...">>)]
            /\ Goto(r, "installdeps",
                    Append(trace[r], Call("marker_exists", IF NameOf(r) \in markers THEN "yes" ELSE "no")))
    /\ UNCHANGED <<arg, spore, emitted, sink, errLog, procs, regFile, regOk, start, prev, dirs,
                   markers, tmpFiles, tmpCount, hostEnv, toolVars, runsStarted>>

\* as AfterInstall, were install() to go on without marking the prefix
AfterInstall_Unmarked(r, out, tr) ==
    CASE out = "ok" ->
           /\ Goto(r, "registry", tr)
           /\ UNCHANGED <<sinkLog, errLog>>
      [] out = "fail" ->
           /\ sinkLog' = [sinkLog EXCEPT ![r] = @ \o LogProgress(r,
                  <<"ERROR: Failed to install dependencies">>)]
           /\ Return(r, False, tr)
           /\ UNCHANGED errLog
      [] out = "raise" -> Crash(r, tr)

\* as AfterInstall, were the marker written after a failed installation too
AfterInstall_MarksAnyway(r, out, tr) ==
    CASE out \in {"ok", "fail"} ->
           /\ Goto(r, "writemarker", tr)
           /\ UNCHANGED <<sinkLog, errLog>>
      [] out = "raise" -> Crash(r, tr)

\* install() after _install_dependencies_unified came back with outcome out
AfterInstall(r, out, tr) ==
    CASE out = "ok" ->
           /\ Goto(r, "writemarker", tr)
           /\ UNCHANGED <<sinkLog, errLog>>
      [] out = "fail" ->
           /\ sinkLog' = [sinkLog EXCEPT ![r] = @ \o LogProgress(r,
                  <<"ERROR: Failed to install dependencies">>)]
           /\ Return(r, False, tr)
           /\ UNCHANGED errLog
      [] out = "raise" -> Crash(r, tr)

\* Step 3, the installation: resolve the runtime, then _install_dependencies_unified
InstallDependencies(r) ==
    /\ pc[r] = "installdeps"
    /\ \E proton \in ProtonOutcomes :
        LET tr == Append(trace[r], Call("get_active_proton_path", ProtonOut(proton)))
        IN IF NoRuntime(proton)
           THEN /\ sinkLog' = [sinkLog EXCEPT ![r] = @ \o LogProgress(r,
                       <<"ERROR: No active Proton-GE version">>)]
                /\ Return(r, False, tr)
                /\ UNCHANGED <<sink, errLog>>
           ELSE \E out \in {"ok", "fail", "raise"}, sent \in CollabProgress :
                /\ sink' = [sink EXCEPT ![r] = @ \o CollabSends(r, "dependency_installer", sent)]
                /\ AfterInstall(r, out, Append(tr, Call("install_dependencies", out)))
    /\ UNCHANGED <<arg, spore, emitted, procs, regFile, regOk, start, prev, dirs, markers,
                   tmpFiles, tmpCount, hostEnv, toolVars, runsStarted>>

\* as Touch, were a marker that exists removed by the second write
Touch_Toggles(ms, name) == IF name \in ms THEN ms \ {name} ELSE ms \cup {name}

\* as Touch, were the marker not written
Touch_Forgotten(ms, name) == ms

\* dependency_marker.touch()
Touch(ms, name) == ms \cup {name}

\* Step 3, the end: mark the dependencies as installed
WriteMarker(r) ==
    /\ pc[r] = "writemarker"
    /\ \/ /\ markers' = Touch(markers, NameOf(r))
          /\ sinkLog' = [sinkLog EXCEPT ![r] = @ \o LogProgress(r,
                 <<"[OK] Dependencies installed successfully">>)]
          /\ Goto(r, "registry", Append(trace[r], Call("touch_marker", "ok")))
          /\ UNCHANGED errLog
       \/ /\ Crash(r, Append(trace[r], Call("touch_marker", "raise")))
          /\ UNCHANGED markers
    /\ UNCHANGED <<arg, spore, emitted, sink, procs, regFile, regOk, start, prev, dirs, tmpFiles,
                   tmpCount, hostEnv, toolVars, runsStarted>>

\* what subprocess.run of "wine64 regedit <file>" can do
ImportOutcomes == {"exit0", "nonzero", "timeout", "raise"}

\* tempfile.NamedTemporaryFile(suffix='.reg', delete=False): a fresh name
NewRegFile == <<"tmp", tmpCount + 1, ".reg">>

\* the temporary files when create_spore_registry returns early for want of a runtime
FilesNoRuntime(files, f) == files

\* the temporary files after the import: Path(reg_file).unlink(missing_ok=True)
\* is reached when subprocess.run returned, not when it raised
FilesAfterImport(files, f, out) ==
    IF out \in {"exit0", "nonzero"} THEN files \ {f} ELSE files

\* as ImportResult, were an import that timed out taken for done
ImportResult_TimeoutOk(out) == IF out \in {"exit0", "timeout"} THEN True ELSE False

\* create_spore_registry's return value for an import outcome
ImportResult(out) == IF out = "exit0" THEN True ELSE False

\* what create_spore_registry sends to self.logger.error for an import outcome
ImportErrors(out) ==
    CASE out = "exit0" -> <<>>
      [] out = "nonzero" -> <<ErrRec("Registry application failed", "stderr")>>
      [] out = "timeout" -> <<ErrRec("Failed to create registry", "timed out after 60 seconds")>>
      [] out = "raise" -> <<ErrRec("Failed to create registry", "oserror")>>

\* the guest process a launcher mode spawns: subprocess.run() has waited for
\* the import when it returns, Popen() leaves the installer running
Guest(mode, wine, args, prefix_name, timeout) ==
    [mode |-> mode, argv |-> <<wine>> \o args,
     env |-> GuestEnv(hostEnv, PrefixPath(prefix_name)), timeout |-> timeout,
     state |-> IF mode = "installer" THEN "running" ELSE "ended"]

\* as AfterRegistry, were a failed import to end the run
AfterRegistry_Halts(r, ok, tr) ==
    IF ok = True THEN Goto(r, "fetch", tr) ELSE Return(r, False, tr)

\* install() after create_spore_registry returned ok: a warning, never a halt
AfterRegistry(r, ok, tr) == Goto(r, "fetch", tr)

\* Step 4: progress 40, create_spore_registry, a warning when it fails
PatchRegistry(r) ==
    /\ pc[r] = "registry"
    /\ emitted' = [emitted EXCEPT ![r] = @ \o RegistryProgress]
    /\ sink' = [sink EXCEPT ![r] = @ \o SendProgress(r, RegistryProgress)]
    /\ regFile' = [regFile EXCEPT ![r] = NewRegFile]
    /\ tmpCount' = tmpCount + 1
    /\ \E proton \in ProtonOutcomes :
        LET tr == Append(trace[r], Call("get_active_proton_path", ProtonOut(proton)))
        IN IF NoRuntime(proton)
           THEN /\ tmpFiles' = FilesNoRuntime(tmpFiles \cup {NewRegFile}, NewRegFile)
                /\ regOk' = [regOk EXCEPT ![r] = False]
                /\ sinkLog' = [sinkLog EXCEPT ![r] = @ \o LogProgress(r,
                       <<"Creating Spore registry entries...",
                         "Error: No active Proton-GE version",
                         "WARNING: Failed to apply registry keys">>)]
                /\ AfterRegistry(r, False, tr)
                /\ UNCHANGED <<errLog, procs>>
           ELSE \E out \in ImportOutcomes :
                /\ tmpFiles' = FilesAfterImport(tmpFiles \cup {NewRegFile}, NewRegFile, out)
                /\ regOk' = [regOk EXCEPT ![r] = ImportResult(out)]
                /\ procs' = [procs EXCEPT ![r] =
                       IF out = "raise" THEN @
                       ELSE Append(@, Guest("regedit", WinePath(proton), <<"regedit", NewRegFile>>,
                                            NameOf(r), RegeditTimeout))]
                /\ errLog' = [errLog EXCEPT ![r] = @ \o ImportErrors(out)]
                /\ sinkLog' = [sinkLog EXCEPT ![r] = @ \o LogProgress(r,
                       <<"Creating Spore registry entries...">> \o
                       (IF ImportResult(out) = True
                        THEN <<"[OK] Spore registry entries applied">>
                        ELSE <<"WARNING: Failed to apply registry keys">>))]
                /\ AfterRegistry(r, ImportResult(out), Append(tr, Call("regedit", out)))
    /\ UNCHANGED <<arg, spore, start, prev, dirs, markers, hostEnv, toolVars, runsStarted>>

\* what download_modapi_installer logs when get_latest_release() gives a
\* release with these assets and download_file() ends with outcome dl
DownloadLines(assets, dl) ==
    IF ~HasInstallerAsset(assets)
    THEN <<"Error: ModAPI.InterimSetup.exe not found in release">>
    ELSE <<"Found ModAPI.InterimSetup.exe in release", "Downloading ModAPI.InterimSetup.exe...">>
         \o (CASE dl = "ok" -> <<"Downloaded installer">>
               [] dl = "none" -> <<"Error: Failed to download ModAPI.InterimSetup.exe">>
               [] dl = "raise" -> <<>>)

\* as AfterFetch, were the download tried again when it gave no installer
AfterFetch_Retries(r, dl, tr) ==
    IF dl = "ok" THEN Goto(r, "launch", tr) ELSE Goto(r, "fetch", tr)

\* as AfterFetch, were install() to go on without an installer
AfterFetch_GoesOn(r, dl, tr) == Goto(r, "launch", tr)

\* install() after download_modapi_installer: on with the path, halt on None
AfterFetch(r, dl, tr) ==
    IF dl = "ok" THEN Goto(r, "launch", tr) ELSE Return(r, False, tr)

\* Step 5: progress 50, download_modapi_installer, failure when it returns None
FetchInstaller(r) ==
    /\ pc[r] = "fetch"
    /\ emitted' = [emitted EXCEPT ![r] = @ \o FetchProgress]
    /\ \/ \E rel \in {"none", "raise"} :
            /\ sink' = [sink EXCEPT ![r] = @ \o SendProgress(r, FetchProgress)]
            /\ errLog' = [errLog EXCEPT ![r] = @ \o
                   (IF rel = "raise" THEN <<ErrRec("Failed to download installer", "exception")>>
                    ELSE <<>>)]
            /\ sinkLog' = [sinkLog EXCEPT ![r] = @ \o LogProgress(r,
                   <<"Downloading ModAPI installer from GitHub...">> \o
                   (IF rel = "none" THEN <<"Error: Could not fetch latest release">> ELSE <<>>) \o
                   <<"ERROR: Failed to download installer">>)]
            /\ AfterFetch(r, rel, Append(trace[r], Call("get_latest_release", rel)))
       \/ \E assets \in AssetLists :
            /\ ~HasInstallerAsset(assets)
            /\ sink' = [sink EXCEPT ![r] = @ \o SendProgress(r, FetchProgress)]
            /\ sinkLog' = [sinkLog EXCEPT ![r] = @ \o LogProgress(r,
                   <<"Downloading ModAPI installer from GitHub...">> \o DownloadLines(assets, "none")
                   \o <<"ERROR: Failed to download installer">>)]
            /\ AfterFetch(r, "noasset", Append(trace[r], Call("get_latest_release", "noasset")))
            /\ UNCHANGED errLog
       \/ \E assets \in AssetLists, dl \in {"ok", "none", "raise"}, sent \in CollabProgress :
            /\ HasInstallerAsset(assets)
            /\ sink' = [sink EXCEPT ![r] = @ \o SendProgress(r, FetchProgress)
                                             \o CollabSends(r, "downloader", sent)]
            /\ errLog' = [errLog EXCEPT ![r] = @ \o
                   (IF dl = "raise"
                    THEN <<ErrRec("Failed to download installer", "exception")>> ELSE <<>>)]
            /\ sinkLog' = [sinkLog EXCEPT ![r] = @ \o LogProgress(r,
                   <<"Downloading ModAPI installer from GitHub...">> \o DownloadLines(assets, dl)
                   \o (IF dl = "ok" THEN <<>> ELSE <<"ERROR: Failed to download installer">>))]
            /\ AfterFetch(r, dl, trace[r] \o <<Call("get_latest_release", "release"),
                                               Call("download_file", dl)>>)
    /\ UNCHANGED <<arg, spore, procs, regFile, regOk, start, prev, dirs, markers, tmpFiles,
                   tmpCount, hostEnv, toolVars, runsStarted>>

\* as AfterSpawn, were install() to wait for the installer it started
AfterSpawn_Waits(r, tr) == Goto(r, "wait", tr)

\* launch_installer_with_instructions after Popen(): return True at once, and
\* install() returns True
AfterSpawn(r, tr) == Return(r, True, tr)

\* Step 6: progress 60, launch_installer_with_instructions; progress 100 when
\* the installer was started
LaunchInstaller(r) ==
    /\ pc[r] = "launch"
    /\ \E proton \in ProtonOutcomes :
        LET tr == Append(trace[r], Call("get_active_proton_path", ProtonOut(proton)))
        IN IF NoRuntime(proton)
           THEN /\ emitted' = [emitted EXCEPT ![r] = @ \o LaunchProgress]
                /\ sink' = [sink EXCEPT ![r] = @ \o SendProgress(r, LaunchProgress)]
                /\ sinkLog' = [sinkLog EXCEPT ![r] = @ \o LogProgress(r,
                       <<"Installer opened! Follow these steps",
                         "Error: No active Proton-GE version",
                         "ERROR: Installer failed">>)]
                /\ Return(r, False, tr)
                /\ UNCHANGED <<errLog, procs>>
           ELSE \/ /\ emitted' = [emitted EXCEPT ![r] = @ \o LaunchProgress \o DoneProgress]
                   /\ sink' = [sink EXCEPT ![r] = @ \o SendProgress(r, LaunchProgress \o DoneProgress)]
                   /\ procs' = [procs EXCEPT ![r] =
                          Append(@, Guest("installer", WinePath(proton), <<DownloadedFile>>,
                                          NameOf(r), 0))]
                   /\ sinkLog' = [sinkLog EXCEPT ![r] = @ \o LogProgress(r,
                          <<"Installer opened! Follow these steps",
                            "Installer launched. Complete the installation and click Exit.",
                            "Then return to NaK to finish setup.",
                            "",
                            "=== Setup Complete! ===",
                            "The ModAPI installer is now running.",
                            "Complete the installation, then return to NaK to create launch scripts.">>)]
                   /\ AfterSpawn(r, Append(tr, Call("popen", "ok")))
                   /\ UNCHANGED errLog
                \/ /\ emitted' = [emitted EXCEPT ![r] = @ \o LaunchProgress]
                   /\ sink' = [sink EXCEPT ![r] = @ \o SendProgress(r, LaunchProgress)]
                   /\ errLog' = [errLog EXCEPT ![r] =
                          Append(@, ErrRec("Failed to launch installer", "oserror"))]
                   /\ sinkLog' = [sinkLog EXCEPT ![r] = @ \o LogProgress(r,
                          <<"Installer opened! Follow these steps",
                            "Error launching installer",
                            "ERROR: Installer failed">>)]
                   /\ Return(r, False, Append(tr, Call("popen", "raise")))
                   /\ UNCHANGED procs
    /\ UNCHANGED <<arg, spore, regFile, regOk, start, prev, dirs, markers, tmpFiles, tmpCount,
                   hostEnv, toolVars, runsStarted>>

\* ------------------------------------------------------------------------
\* The specification: the caller makes its calls of install() one at a time
\* ------------------------------------------------------------------------

Next ==
    \E r \in Runs :
        \/ Start(r)
        \/ LocateGame(r)
        \/ PrepareSandbox(r)
        \/ CheckDependencies(r)
        \/ InstallDependencies(r)
        \/ WriteMarker(r)
        \/ PatchRegistry(r)
        \/ FetchInstaller(r)
        \/ LaunchInstaller(r)

Spec == Init /\ [][Next]_vars

\* ------------------------------------------------------------------------
\* Two callers: calls of install() on one prefix that overlap
\* ------------------------------------------------------------------------

\* the slots of the two calls
ConcRuns == {1, 2}

\* the values the two callers pass as custom_name
ConcNames == {None, "my_spore"}

\* a caller calls install() while the other call may be running; both
\* callers name the same prefix and attach a log callback only
StartConcurrent(r) ==
    /\ pc[r] = "idle"
    /\ \E cn \in ConcNames :
        /\ \A q \in ConcRuns \ {r} : pc[q] /= "idle" => PrefixName(arg[q].custom_name) = PrefixName(cn)
        /\ arg' = [arg EXCEPT ![r] = [custom_name |-> cn, progress_cb |-> FALSE, log_cb |-> TRUE]]
    /\ sinkLog' = [sinkLog EXCEPT ![r] = <<"=== Starting Spore Mod Loader Installation ===">>]
    /\ emitted' = [emitted EXCEPT ![r] = StartProgress]
    /\ pc' = [pc EXCEPT ![r] = "locate"]
    /\ start' = [start EXCEPT ![r] = Files]
    /\ runsStarted' = runsStarted + 1
    /\ UNCHANGED <<result, spore, sink, errLog, trace, procs, regFile, regOk, prev, dirs,
                   markers, tmpFiles, tmpCount, hostEnv, toolVars>>

\* the state before the two calls: as Init, with a slot for each call
InitConcurrent ==
    /\ pc = [r \in ConcRuns |-> "idle"]
    /\ arg = [r \in ConcRuns |-> [custom_name |-> None, progress_cb |-> FALSE, log_cb |-> FALSE]]
    /\ spore = [r \in ConcRuns |-> Absent]
    /\ result = [r \in ConcRuns |-> None]
    /\ emitted = [r \in ConcRuns |-> <<>>]
    /\ sink = [r \in ConcRuns |-> <<>>]
    /\ sinkLog = [r \in ConcRuns |-> <<>>]
    /\ errLog = [r \in ConcRuns |-> <<>>]
    /\ trace = [r \in ConcRuns |-> <<>>]
    /\ procs = [r \in ConcRuns |-> <<>>]
    /\ regFile = [r \in ConcRuns |-> Absent]
    /\ regOk = [r \in ConcRuns |-> None]
    /\ dirs \in SUBSET {PrefixName(c) : c \in ConcNames}
    /\ markers \in SUBSET dirs
    /\ tmpFiles = {}
    /\ tmpCount = 0
    /\ start = [r \in ConcRuns |-> Files]
    /\ prev = [r \in ConcRuns |-> Absent]
    /\ hostEnv = [HOME |-> <<"/home/user">>]
    /\ runsStarted = 0
    /\ guestFiles = {}
    /\ scripts = <<>>
    /\ op = NoOp

NextConcurrent ==
    \E r \in ConcRuns :
        \/ StartConcurrent(r)
        \/ LocateGame(r)
        \/ PrepareSandbox(r)
        \/ CheckDependencies(r)
        \/ InstallDependencies(r)
        \/ WriteMarker(r)
        \/ PatchRegistry(r)
        \/ FetchInstaller(r)
        \/ LaunchInstaller(r)

SpecConcurrent == InitConcurrent /\ [][NextConcurrent]_vars

\* ------------------------------------------------------------------------
\* The helpers the caller uses outside install()
\* ------------------------------------------------------------------------

\* the variables of install()
installVars == <<pc, arg, spore, result, emitted, sink, sinkLog, errLog, trace, procs,
                 regFile, regOk, start, prev, dirs, markers, tmpFiles, tmpCount, hostEnv,
                 runsStarted>>

\* prefix_path, the prefix the helpers are called on
ToolPrefix == PrefixPath(DefaultPrefixName)

\* the three guest binaries
LauncherExe == "Spore ModAPI Launcher.exe"
InstallerExe == "Spore ModAPI Easy Installer.exe"
UninstallerExe == "Spore ModAPI Easy Uninstaller.exe"

\* the places find_modapi_installation looks at
DefaultModapiPath(prefix_path) ==
    prefix_path \o <<"drive_c", "ProgramData", "SPORE ModAPI Launcher Kit">>
AltPath1(prefix_path) ==
    prefix_path \o <<"drive_c", "Program Files (x86)", "Spore ModAPI Launcher Kit">>
AltPath2(prefix_path) ==
    prefix_path \o <<"drive_c", "Program Files", "Spore ModAPI Launcher Kit">>

ModapiDirs == {DefaultModapiPath(ToolPrefix), AltPath1(ToolPrefix), AltPath2(ToolPrefix)}

\* the files that may exist under the three places
GuestBinaries ==
    {d \o <<e>> : d \in ModapiDirs, e \in {LauncherExe, InstallerExe, UninstallerExe}}

\* Path.exists()
Exists(files, path) == path \in files

\* as FindModapiInstallation, were the ProgramData place looked at last
FindModapiInstallation_DefaultLast(files, prefix_path) ==
    IF Exists(files, AltPath1(prefix_path) \o <<LauncherExe>>)
    THEN [out |-> AltPath1(prefix_path),
          log |-> <<"Locating ModAPI installation...", "Found ModAPI installation at:">>]
    ELSE IF Exists(files, AltPath2(prefix_path) \o <<LauncherExe>>)
    THEN [out |-> AltPath2(prefix_path),
          log |-> <<"Locating ModAPI installation...", "Found ModAPI installation at:">>]
    ELSE IF Exists(files, DefaultModapiPath(prefix_path) \o <<LauncherExe>>)
    THEN [out |-> DefaultModapiPath(prefix_path),
          log |-> <<"Locating ModAPI installation...", "Found ModAPI installation at:">>]
    ELSE [out |-> Absent,
          log |-> <<"Locating ModAPI installation...",
                    "ERROR: Could not find ModAPI installation in Wine prefix">>]

\* as FindModapiInstallation, were "Program Files" looked at before
\* "Program Files (x86)"
FindModapiInstallation_ProgramFilesFirst(files, prefix_path) ==
    IF Exists(files, DefaultModapiPath(prefix_path) \o <<LauncherExe>>)
    THEN [out |-> DefaultModapiPath(prefix_path),
          log |-> <<"Locating ModAPI installation...", "Found ModAPI installation at:">>]
    ELSE IF Exists(files, AltPath2(prefix_path) \o <<LauncherExe>>)
    THEN [out |-> AltPath2(prefix_path),
          log |-> <<"Locating ModAPI installation...", "Found ModAPI installation at:">>]
    ELSE IF Exists(files, AltPath1(prefix_path) \o <<LauncherExe>>)
    THEN [out |-> AltPath1(prefix_path),
          log |-> <<"Locating ModAPI installation...", "Found ModAPI installation at:">>]
    ELSE [out |-> Absent,
          log |-> <<"Locating ModAPI installation...",
                    "ERROR: Could not find ModAPI installation in Wine prefix">>]

\* find_modapi_installation: the first of the three places that holds the
\* launcher, with the lines it logs; Absent when none does
FindModapiInstallation(files, prefix_path) ==
    IF Exists(files, DefaultModapiPath(prefix_path) \o <<LauncherExe>>)
    THEN [out |-> DefaultModapiPath(prefix_path),
          log |-> <<"Locating ModAPI installation...", "Found ModAPI installation at:">>]
    ELSE IF Exists(files, AltPath1(prefix_path) \o <<LauncherExe>>)
    THEN [out |-> AltPath1(prefix_path),
          log |-> <<"Locating ModAPI installation...", "Found ModAPI installation at:">>]
    ELSE IF Exists(files, AltPath2(prefix_path) \o <<LauncherExe>>)
    THEN [out |-> AltPath2(prefix_path),
          log |-> <<"Locating ModAPI installation...", "Found ModAPI installation at:">>]
    ELSE [out |-> Absent,
          log |-> <<"Locating ModAPI installation...",
                    "ERROR: Could not find ModAPI installation in Wine prefix">>]

\* the caller calls find_modapi_installation(prefix_path)
LocateModapi ==
    /\ op = NoOp
    /\ LET found == FindModapiInstallation(guestFiles, ToolPrefix)
       IN op' = [name |-> "find_modapi_installation", out |-> found.out, log |-> found.log]
    /\ UNCHANGED <<installVars, guestFiles, scripts>>

\* executables: the guest binaries and the scripts that launch them
Executables ==
    << [exe |-> LauncherExe, script |-> "launch_spore_modapi_launcher.sh"],
       [exe |-> InstallerExe, script |-> "launch_spore_modapi_installer.sh"],
       [exe |-> UninstallerExe, script |-> "launch_spore_modapi_uninstaller.sh"] >>

ScriptNames == {Executables[i].script : i \in DOMAIN Executables}

\* what SteamUtils().get_steam_root() can give: a path, or an exception
SteamRoot == <<"home", "user", ".local", "share", "Steam">>
SteamOutcomes == {SteamRoot, <<"raise">>}

\* the bare except around get_steam_root()
SteamPath(steam) == IF steam = <<"raise">> THEN <<"$HOME", ".steam", "steam">> ELSE steam

\* which write_text() of a call raises: the n-th, or none when 0
WriteFailures == 0..Len(Executables)

\* str(exe_path).replace(str(prefix_path / "drive_c"), "C:").replace("/", "\\"),
\* as the components that the backslashes separate
WineExePath(exe_path, prefix_path) ==
    LET drive == prefix_path \o <<"drive_c">>
    IN IF Len(exe_path) >= Len(drive) /\ SubSeq(exe_path, 1, Len(drive)) = drive
       THEN <<"C:">> \o SubSeq(exe_path, Len(drive) + 1, Len(exe_path))
       ELSE <<"">> \o exe_path

\* the script written for one executable, with the mode chmod gives it
LaunchScript(exe_name, modapi_install_dir, prefix_path, proton, steam) ==
    [exe_name |-> exe_name,
     proton_ge |-> Parent(proton),
     prefix |-> prefix_path,
     compat_data |-> Parent(prefix_path),
     modapi_exe |-> WineExePath(modapi_install_dir \o <<exe_name>>, prefix_path),
     steam_path |-> SteamPath(steam),
     mode |-> "755"]

\* a file that lay in script_output_dir before the call
StaleScript ==
    [exe_name |-> "stale", proton_ge |-> <<>>, prefix |-> <<>>, compat_data |-> <<>>,
     modapi_exe |-> <<>>, steam_path |-> <<>>, mode |-> "644"]

\* as CreatedResult, were an empty list of scripts a success too
CreatedResult_Always(created_scripts) == True

\* if created_scripts: return True, else: return False
CreatedResult(created_scripts) == IF created_scripts /= <<>> THEN True ELSE False

\* script_path.write_text(launch_script); script_path.chmod(0o755)
WriteText(old, name, text) ==
    [n \in DOMAIN old \cup {name} |-> IF n = name THEN text ELSE old[n]]

\* the files of script_output_dir once the scripts of the executables
\* todo[1..k] are written
RECURSIVE WriteScripts(_, _, _, _, _, _, _)
WriteScripts(old, todo, k, modapi_install_dir, prefix_path, proton, steam) ==
    IF k = 0 THEN old
    ELSE WriteText(WriteScripts(old, todo, k - 1, modapi_install_dir, prefix_path, proton, steam),
                   Executables[todo[k]].script,
                   LaunchScript(Executables[todo[k]].exe, modapi_install_dir, prefix_path,
                                proton, steam))

\* create_launch_scripts: what it returns, the files of script_output_dir
\* after it, the scripts it created, the executables it skipped and the
\* lines it logged
CreateLaunchScripts(files, old, prefix_path, modapi_install_dir, proton, steam, failAt) ==
    LET found == IF modapi_install_dir = Absent
                 THEN FindModapiInstallation(files, prefix_path)
                 ELSE [out |-> modapi_install_dir, log |-> <<>>]
        dir == found.out
        head == <<"Creating launch scripts...">> \o found.log
        Has(i) == Exists(files, dir \o <<Executables[i].exe>>)
        present == SelectSeq(<<1, 2, 3>>, Has)
        failed == failAt \in 1..Len(present)
        done == IF failed THEN SubSeq(present, 1, failAt - 1) ELSE present
        last == IF failed THEN present[failAt] - 1 ELSE Len(Executables)
        Missing(i) == i <= last /\ ~Has(i)
        skipped == SelectSeq(<<1, 2, 3>>, Missing)
        lines == [i \in 1..last |->
                     IF Has(i) THEN "Created:"
                     ELSE "Warning: not found, skipping script creation"]
    IN IF dir = Absent
       THEN [out |-> False, scripts |-> old, created |-> <<>>, skipped |-> <<>>,
             log |-> head \o <<"ERROR: Could not find ModAPI installation">>,
             err |-> <<>>, raised |-> FALSE]
       ELSE IF proton = Absent
       THEN [out |-> False, scripts |-> old, created |-> <<>>, skipped |-> <<>>,
             log |-> head, err |-> <<"Failed to create launch scripts:">>, raised |-> TRUE]
       ELSE [out |-> IF failed THEN False ELSE CreatedResult(done),
             scripts |-> WriteScripts(old, done, Len(done), dir, prefix_path, proton, steam),
             created |-> [i \in 1..Len(done) |-> Executables[done[i]].script],
             skipped |-> [i \in 1..Len(skipped) |-> Executables[skipped[i]].exe],
             log |-> head \o lines \o
                     (IF failed THEN <<>>
                      ELSE IF done /= <<>> THEN <<"[OK] Created launch script(s)">>
                      ELSE <<"Warning: No launch scripts created (executables not found)">>),
             err |-> IF failed THEN <<"Failed to create launch scripts:">> ELSE <<>>,
             raised |-> failed]

\* the caller calls create_launch_scripts(script_output_dir, prefix_path,
\* modapi_install_dir), with the root it knows or with None
MakeLaunchScripts ==
    /\ op = NoOp
    /\ \E modapi_install_dir \in ModapiDirs \cup {Absent}, proton \in ProtonOutcomes,
          steam \in SteamOutcomes, failAt \in WriteFailures :
          LET made == CreateLaunchScripts(guestFiles, scripts, ToolPrefix, modapi_install_dir,
                                          proton, steam, failAt)
          IN /\ scripts' = made.scripts
             /\ op' = [name |-> "create_launch_scripts", dir |-> modapi_install_dir,
                       proton |-> ProtonOut(proton), failAt |-> failAt, before |-> scripts,
                       out |-> made.out, created |-> made.created,
                       skipped |-> made.skipped, log |-> made.log, err |-> made.err,
                       raised |-> made.raised]
    /\ UNCHANGED <<installVars, guestFiles>>

\* the state in which the helpers are called: install() has run on the
\* default prefix, the guest installer has put any of the binaries into
\* any of the three places, and script_output_dir holds any stale scripts
InitTools ==
    /\ InstallIdle
    /\ dirs = {DefaultPrefixName}
    /\ markers = {DefaultPrefixName}
    /\ hostEnv = [HOME |-> <<"/home/user">>]
    /\ guestFiles \in SUBSET GuestBinaries
    /\ scripts \in {[n \in stale |-> StaleScript] : stale \in SUBSET ScriptNames}
    /\ op = NoOp

NextTools == LocateModapi \/ MakeLaunchScripts

SpecTools == InitTools /\ [][NextTools]_vars

\* ------------------------------------------------------------------------
\* The caller's whole way: install(), then create_launch_scripts
\* ------------------------------------------------------------------------

\* what the prefix can hold of the guest binaries when the caller starts
WorkflowFiles == {{}, {DefaultModapiPath(ToolPrefix) \o <<LauncherExe>>}}

InitWorkflow ==
    /\ InstallIdle
    /\ hostEnv = [HOME |-> <<"/home/user">>]
    /\ guestFiles \in WorkflowFiles
    /\ scripts = <<>>
    /\ op = NoOp

\* a step of the one call of install() the caller makes
InstallOnce ==
    /\ op = NoOp
    /\ runsStarted = 0 \/ \E r \in Runs : pc[r] /= "done"
    /\ Next

\* install() has returned True and the caller has the launch scripts created
ScriptsAfterInstall ==
    /\ \A r \in Runs : pc[r] = "done" /\ result[r] = True
    /\ MakeLaunchScripts

NextWorkflow == InstallOnce \/ ScriptsAfterInstall

SpecWorkflow == InitWorkflow /\ [][NextWorkflow]_vars

\* ------------------------------------------------------------------------
\* The guest installer after install() started it
\* ------------------------------------------------------------------------

\* how the installer that Popen() started can end: the user closes it, or
\* it crashes
GuestFates == {"exit0", "crashed"}

\* the installer a run started ends; nothing in the file waits for it, polls
\* it or reads its exit status
GuestEnds(r) ==
    /\ \E i \in 1..Len(procs[r]), fate \in GuestFates :
          /\ procs[r][i].state = "running"
          /\ procs' = [procs EXCEPT ![r][i].state = fate]
    /\ UNCHANGED <<pc, arg, spore, result, emitted, sink, sinkLog, errLog, trace, regFile,
                   regOk, start, prev, dirs, markers, tmpFiles, tmpCount, hostEnv,
                   runsStarted, toolVars>>

NextGuest == InstallOnce \/ \E r \in Runs : GuestEnds(r)

SpecGuest == Init /\ [][NextGuest]_vars

\* ------------------------------------------------------------------------
\* The path translation and the registry document
\* ------------------------------------------------------------------------

\* texts are sequences of pieces: a piece is one character, or a word of
\* the template or of a path that holds no slash and no backslash
PathChars == {"/", "\\", "a", "%CDKEY%"}

\* the absolute paths of at most MaxPathLen pieces
HostPaths ==
    {<<"/">> \o rest : rest \in UNION {[1..n -> PathChars] : n \in 0..(MaxPathLen - 1)}}

\* str.replace(from, to) where from is one character
RECURSIVE Replace(_, _, _)
Replace(s, from, to) ==
    IF s = <<>> THEN <<>>
    ELSE (IF Head(s) = from THEN to ELSE <<Head(s)>>) \o Replace(Tail(s), from, to)

\* "Z:\\" + linux_path.replace("/", "\\")
ConvertToWinePathDisplay(linux_path) ==
    <<"Z", ":", "\\">> \o Replace(linux_path, "/", <<"\\">>)

\* "Z:\\\\" + linux_path.replace("/", "\\\\")
ConvertToWinePathRegistry(linux_path) ==
    <<"Z", ":", "\\", "\\">> \o Replace(linux_path, "/", <<"\\", "\\">>)

\* the caller has a path translated, in both modes
ConvertPath ==
    /\ op = NoOp
    /\ \E linux_path \in HostPaths :
          op' = [name |-> "convert_to_wine_path", path |-> linux_path,
                 display |-> ConvertToWinePathDisplay(linux_path),
                 registry |-> ConvertToWinePathRegistry(linux_path)]
    /\ UNCHANGED <<installVars, guestFiles, scripts>>

\* the start of every key of the template
EaKey == <<"[", "HKEY_LOCAL_MACHINE", "\\", "Software", "\\", "Wow6432Node", "\\",
           "electronic arts", "\\">>

\* the four key blocks of the template, as lines
SporeBlock(wine_data_path) ==
    << EaKey \o <<"spore", "]">>,
       <<"\"appdir\"=\"", "Spore", "\"">>,
       <<"\"datadir\"=\"">> \o wine_data_path \o <<"\"">>,
       <<"\"locale\"=\"", "en-us", "\"">>,
       <<"\"playerdir\"=\"", "My Spore Creations", "\"">> >>

ErgcBlock ==
    << EaKey \o <<"ea games", "\\", "spore(tm)", "\\", "ergc", "]">>,
       <<"@=\"", "%CDKEY%", "\"">> >>

PartsPackBlock(wine_bp1_path) ==
    << EaKey \o <<"SPORE Creepy and Cute Parts Pack", "]">>,
       <<"\"AddOnID\"=", "dword:00000001">>,
       <<"\"datadir\"=\"">> \o wine_bp1_path \o <<"\\", "\\", "\"">>,
       <<"\"PackID\"=", "dword:06f4b5d1">> >>

\* as Ep1Block, were the ProductKey value left out
Ep1Block_NoProductKey(wine_dataep1_path) ==
    << EaKey \o <<"SPORE_EP1", "]">>,
       <<"\"AddOnID\"=", "dword:00000002">>,
       <<"\"datadir\"=\"">> \o wine_dataep1_path \o <<"\\", "\\", "\"">>,
       <<"\"PackID\"=", "dword:07a7f786">> >>

Ep1Block(wine_dataep1_path) ==
    << EaKey \o <<"SPORE_EP1", "]">>,
       <<"\"AddOnID\"=", "dword:00000002">>,
       <<"\"datadir\"=\"">> \o wine_dataep1_path \o <<"\\", "\\", "\"">>,
       <<"\"PackID\"=", "dword:07a7f786">>,
       <<"\"ProductKey\"=\"", "%CDKEY%", "\"">> >>

\* reg_content of create_spore_registry, as lines
RegContent(spore_path) ==
    LET wine_spore_path == ConvertToWinePathRegistry(spore_path)
        wine_data_path == wine_spore_path \o <<"\\", "\\", "Data">>
        wine_dataep1_path == wine_spore_path \o <<"\\", "\\", "DataEP1">>
        wine_bp1_path == wine_spore_path \o <<"\\", "\\", "bp1content">>
    IN << <<"Windows Registry Editor Version 5.00">>, <<>> >>
       \o SporeBlock(wine_data_path) \o << <<>> >>
       \o ErgcBlock \o << <<>> >>
       \o PartsPackBlock(wine_bp1_path) \o << <<>> >>
       \o Ep1Block(wine_dataep1_path)

\* create_spore_registry builds the document for a path
BuildRegistry ==
    /\ op = NoOp
    /\ \E spore_path \in HostPaths :
          op' = [name |-> "create_spore_registry", path |-> spore_path,
                 content |-> RegContent(spore_path)]
    /\ UNCHANGED <<installVars, guestFiles, scripts>>

\* the state in which the pure functions are applied
InitPaths ==
    /\ InitTools
    /\ guestFiles = {}
    /\ scripts = <<>>

NextPaths == ConvertPath \/ BuildRegistry

SpecPaths == InitPaths /\ [][NextPaths]_vars

\* ------------------------------------------------------------------------
\* Properties
\* ------------------------------------------------------------------------

\* the members of a sequence
Range(s) == {s[i] : i \in 1..Len(s)}

\* s is the beginning of t
IsPrefix(s, t) == Len(s) <= Len(t) /\ s = SubSeq(t, 1, Len(s))

\* no member of s is smaller than the one before it
NonDecreasing(s) == \A i \in 1..(Len(s) - 1) : s[i] <= s[i + 1]

\* how often run r called _install_dependencies_unified
InstallCalls(r) == Cardinality(CallsOf(trace[r], "install_dependencies"))

\* the Game Locator gave run r no game whose name contains "spore", or raised
NoGame(r) ==
    /\ Len(trace[r]) >= 1
    /\ trace[r][1].op = "find_all_games"
    /\ trace[r][1].out \in {"nospore", "raise"}

\* C1: a run in which the Game Locator yields no record whose name contains
\* "spore", or raises, has returned failure with nothing else called: no
\* sandbox directory, marker or temporary file created, no dependency
\* installer, registry import, downloader or launcher used.
C1_NoGameNoSideEffects ==
    \A r \in Runs :
        NoGame(r) =>
            /\ pc[r] = "done"
            /\ result[r] = False
            /\ Len(trace[r]) = 1
            /\ procs[r] = <<>>
            /\ regFile[r] = Absent
            /\ Files = start[r]

\* C1, its case: a run without a game has returned and its sandbox does not exist
C1_Witness ==
    \E r \in Runs :
        /\ NoGame(r)
        /\ result[r] = False
        /\ NameOf(r) \notin dirs
        /\ \E i \in 1..Len(trace[r]) : trace[r][i].out = "nospore"

\* the call before this one wrote the marker of the sandbox this call uses
AfterMarkingCall(r) ==
    /\ prev[r] /= Absent
    /\ prev[r][1].marked
    /\ prev[r][1].name = NameOf(r)

\* C2: of two calls in sequence on the same sandbox, the first of which
\* wrote the marker, the first invoked _install_dependencies_unified once
\* and the second does not invoke it: exactly one invocation in all.
C2_SecondCallSkipsInstall ==
    \A r \in Runs :
        AfterMarkingCall(r) =>
            /\ prev[r][1].installs = 1
            /\ InstallCalls(r) = 0

\* C2, its case: the second call found the marker and is past the step
C2_Witness ==
    \E r \in Runs :
        /\ AfterMarkingCall(r)
        /\ prev[r][1].installs = 1
        /\ \E i \in 1..Len(trace[r]) : trace[r][i] = Call("marker_exists", "yes")
        /\ pc[r] \in {"registry", "fetch", "launch", "done"}
        /\ InstallCalls(r) = 0

\* download_modapi_installer was called in run r
FetchRan(r) == CallsOf(trace[r], "get_latest_release") /= {}

\* the installer was downloaded in run r
Downloaded(r) == \E i \in 1..Len(trace[r]) : trace[r][i] = Call("download_file", "ok")

\* launch_installer_with_instructions was called in run r
LaunchRan(r) ==
    \E i \in 1..(Len(trace[r]) - 1) :
        /\ trace[r][i] = Call("download_file", "ok")
        /\ trace[r][i + 1].op = "get_active_proton_path"

\* the guest installer was started in run r
Spawned(r) == \E i \in 1..Len(trace[r]) : trace[r][i] = Call("popen", "ok")

\* C3: when create_spore_registry fails (non-zero exit, timeout, the import
\* cannot run), the run goes on to the download and the launch, and when
\* both succeed install() returns True.
C3_RegistryFailureIsSoft ==
    \A r \in Runs :
        regOk[r] = False =>
            /\ pc[r] \in {"fetch", "launch", "done"}
            /\ pc[r] /= "fetch" => FetchRan(r)
            /\ (pc[r] = "done" /\ Downloaded(r)) => LaunchRan(r)
            /\ (pc[r] = "done" /\ Downloaded(r) /\ Spawned(r)) => result[r] = True

\* C3, its case: the import exited non-zero and the run returned True
C3_Witness ==
    \E r \in Runs :
        /\ regOk[r] = False
        /\ \E i \in 1..Len(trace[r]) : trace[r][i] = Call("regedit", "nonzero")
        /\ Downloaded(r)
        /\ Spawned(r)
        /\ result[r] = True

\* a call that found the sandbox directory without a marker, all of whose
\* collaborators succeeded
CleanFirstCall(s) == s.dir0 /\ ~s.marker0 /\ s.clean

\* C4: a call that finds the sandbox directory without the marker and whose
\* delegates all succeed installs the dependencies once, writes the marker
\* and returns True; the next call on the same sandbox does not invoke the
\* dependency installer, and returns True when its delegates all succeed.
C4_RerunSkipsDependencies ==
    \A r \in Runs :
        /\ (pc[r] = "done" /\ CleanFirstCall(Summary(r))) =>
               /\ InstallCalls(r) = 1
               /\ Summary(r).marked
               /\ NameOf(r) \in markers
               /\ result[r] = True
        /\ (prev[r] /= Absent /\ CleanFirstCall(prev[r][1]) /\ prev[r][1].name = NameOf(r)) =>
               /\ prev[r][1].result = True
               /\ InstallCalls(r) = 0
               /\ (pc[r] = "done" /\ Clean(trace[r])) =>
                      /\ result[r] = True
                      /\ \E i \in 1..Len(trace[r]) : trace[r][i] = Call("marker_exists", "yes")

\* C4, its case: the second of two such calls has returned True
C4_Witness ==
    \E r \in Runs :
        /\ prev[r] /= Absent
        /\ CleanFirstCall(prev[r][1])
        /\ prev[r][1].installs = 1
        /\ prev[r][1].name = NameOf(r)
        /\ pc[r] = "done"
        /\ Clean(trace[r])
        /\ InstallCalls(r) = 0
        /\ result[r] = True

\* C5: once create_spore_registry has returned, the temporary registry
\* document it wrote no longer exists, whatever the import's outcome.
C5_TempDocumentDeleted ==
    \A r \in Runs : regOk[r] /= None => regFile[r] \notin tmpFiles

\* the calls after which the runtime is resolved for step 3 or for the launch
\* (it is resolved for the import after the marker was found or written)
HardRuntimeCallers == {Call("marker_exists", "no"), Call("download_file", "ok")}

\* the i-th call of the trace is a hard failure: the locator, the creation of
\* the sandbox, the runtime or the installer of the dependencies, the
\* download or the launch failed
HardFailureAt(tr, i) ==
    \/ /\ tr[i].op \in {"find_all_games", "mkdir", "install_dependencies",
                        "get_latest_release", "download_file", "popen"}
       /\ tr[i].out \in FailureOuts
    \/ /\ tr[i] = Call("get_active_proton_path", "none")
       /\ i > 1
       /\ tr[i - 1] \in HardRuntimeCallers

\* the guest processes started by the first i calls of the trace
SpawnsUpTo(tr, i) ==
    {j \in 1..i : \/ tr[j].op = "regedit" /\ tr[j].out /= "raise"
                  \/ tr[j] = Call("popen", "ok")}

\* C6: a hard failure is the last thing a run does: install() has returned
\* False and nothing was called or spawned after the failing call.
C6_HaltsOnFirstHardFailure ==
    \A r \in Runs :
        \A i \in 1..Len(trace[r]) :
            HardFailureAt(trace[r], i) =>
                /\ i = Len(trace[r])
                /\ pc[r] = "done"
                /\ result[r] = False
                /\ Len(procs[r]) = Cardinality(SpawnsUpTo(trace[r], i))

\* C6, its case: the download failed after the earlier steps had run
C6_Witness ==
    \E r \in Runs :
        /\ pc[r] = "done"
        /\ result[r] = False
        /\ InstallCalls(r) = 1
        /\ CallsOf(trace[r], "regedit") /= {}
        /\ trace[r][Len(trace[r])] = Call("download_file", "none")

\* the percentages of the pipeline's transitions
ProgressSequence == <<0, 5, 10, 15, 40, 50, 60, 100>>

\* the percentages the progress callback received in run r
SinkValues(r) == [i \in 1..Len(sink[r]) |-> sink[r][i].pct]

\* the percentages the progress callback received from install() itself
SinkFromInstall(r) ==
    LET FromInstall(e) == e.src = "install"
        own == SelectSeq(sink[r], FromInstall)
    IN [i \in 1..Len(own) |-> own[i].pct]

\* C7 as stated: the percentages the Progress Sink receives during a run
\* never decrease, and those install() emits are a prefix of 0, 5, 10, 15,
\* 40, 50, 60, 100.
C7_SinkMonotone ==
    \A r \in Runs :
        /\ NonDecreasing(SinkValues(r))
        /\ IsPrefix(emitted[r], ProgressSequence)

\* C7 as amended: the percentages install() itself emits are a prefix of
\* 0, 5, 10, 15, 40, 50, 60, 100, hence never decrease, and a progress
\* callback receives them all in that order; what the dependency installer
\* and the downloader send through the same callback is not bounded by them.
C7_EmittedPrefix ==
    \A r \in Runs :
        /\ IsPrefix(emitted[r], ProgressSequence)
        /\ NonDecreasing(emitted[r])
        /\ arg[r].progress_cb => SinkFromInstall(r) = emitted[r]
        /\ ~arg[r].progress_cb => sink[r] = <<>>

\* C7, its case: a run emitted all eight values and its callback received a
\* smaller value after a larger one
C7_Witness ==
    \E r \in Runs :
        /\ emitted[r] = ProgressSequence
        /\ arg[r].progress_cb
        /\ ~NonDecreasing(SinkValues(r))

\* C8: the import's outcome decides create_spore_registry's result: exit
\* code 0 gives True; a non-zero exit gives False and an error record with
\* the captured stderr; a timeout gives False and an error record that
\* differs from the one of the non-zero exit.
C8_ImportClassified ==
    \A r \in Runs :
        \A i \in 1..Len(trace[r]) :
            trace[r][i].op = "regedit" =>
                LET out == trace[r][i].out
                    errs == Range(errLog[r])
                    exitRec == ErrRec("Registry application failed", "stderr")
                    timeRec == ErrRec("Failed to create registry", "timed out after 60 seconds")
                IN /\ out = "exit0" => (regOk[r] = True /\ exitRec \notin errs /\ timeRec \notin errs)
                   /\ out = "nonzero" => (regOk[r] = False /\ exitRec \in errs /\ timeRec \notin errs)
                   /\ out = "timeout" => (regOk[r] = False /\ timeRec \in errs /\ exitRec \notin errs)

\* C8, its case: an import that timed out
C8_Witness ==
    \E r \in Runs :
        /\ \E i \in 1..Len(trace[r]) : trace[r][i] = Call("regedit", "timeout")
        /\ regOk[r] = False

\* C9: a call of get_active_proton_path() that returns None is followed by
\* no dependency installer, import or launch: in step 3 and in the launch
\* install() returns False at once, in the import create_spore_registry
\* returns False; a guest process is spawned only after a runtime was found.
C9_NoRuntimeNoSpawn ==
    \A r \in Runs :
        LET tr == trace[r]
        IN /\ \A i \in 1..Len(tr) :
                tr[i] = Call("get_active_proton_path", "none") =>
                    /\ i < Len(tr) => tr[i + 1].op \notin {"install_dependencies", "regedit", "popen"}
                    /\ (i > 1 /\ tr[i - 1] \in HardRuntimeCallers) =>
                           (i = Len(tr) /\ pc[r] = "done" /\ result[r] = False)
                    /\ (i > 1 /\ tr[i - 1] \notin HardRuntimeCallers) =>
                           regOk[r] = False
           /\ \A i \in 1..Len(tr) :
                tr[i].op \in {"install_dependencies", "regedit", "popen"} =>
                    (i > 1 /\ tr[i - 1] = Call("get_active_proton_path", "path"))
           /\ Len(procs[r]) = Cardinality(SpawnsUpTo(tr, Len(tr)))

\* C9, its case: no runtime in the import and none in the launch of one run
C9_Witness ==
    \E r \in Runs :
        /\ pc[r] = "done"
        /\ result[r] = False
        /\ regOk[r] = False
        /\ CallsOf(trace[r], "regedit") = {}
        /\ Downloaded(r)
        /\ trace[r][Len(trace[r])] = Call("get_active_proton_path", "none")
        /\ procs[r] = <<>>

\* the entries of the host's LD_LIBRARY_PATH
HostLdLibraryPath ==
    IF "LD_LIBRARY_PATH" \in DOMAIN hostEnv THEN hostEnv["LD_LIBRARY_PATH"] ELSE <<>>

\* C10 as stated: every guest process has WINEPREFIX set to the sandbox path
\* and an LD_LIBRARY_PATH that holds the fixed entries and every entry of the
\* host's LD_LIBRARY_PATH.
C10_HostLibraryPathKept ==
    \A r \in Runs :
        \A i \in 1..Len(procs[r]) :
            LET env == procs[r][i].env
            IN /\ env["WINEPREFIX"] = <<PrefixPath(NameOf(r))>>
               /\ Range(FixedLdLibraryPath) \subseteq Range(env["LD_LIBRARY_PATH"])
               /\ Range(HostLdLibraryPath) \subseteq Range(env["LD_LIBRARY_PATH"])

\* C10 as amended: every guest process has WINEPREFIX set to the sandbox
\* path and LD_LIBRARY_PATH set to the fixed list, which replaces the host's
\* value; the host's other variables are passed on unchanged.
C10_GuestEnvironment ==
    \A r \in Runs :
        \A i \in 1..Len(procs[r]) :
            LET env == procs[r][i].env
            IN /\ DOMAIN env = DOMAIN hostEnv \cup {"WINEPREFIX", "LD_LIBRARY_PATH"}
               /\ env["WINEPREFIX"] = <<PrefixPath(NameOf(r))>>
               /\ env["LD_LIBRARY_PATH"] = FixedLdLibraryPath
               /\ \A k \in DOMAIN hostEnv \ {"WINEPREFIX", "LD_LIBRARY_PATH"} : env[k] = hostEnv[k]

\* C10, its case: both modes spawned a process under a host that defines
\* LD_LIBRARY_PATH
C10_Witness ==
    \E r \in Runs :
        /\ HostLdLibraryPath /= <<>>
        /\ \E i \in 1..Len(procs[r]) : procs[r][i].mode = "regedit"
        /\ \E i \in 1..Len(procs[r]) : procs[r][i].mode = "installer"


\* the launcher lies in place d of the prefix
HasLauncher(d) == (d \o <<LauncherExe>>) \in guestFiles

\* find_modapi_installation was called and has returned
Located == op.name = "find_modapi_installation"

\* C11: find_modapi_installation returns the ProgramData place whenever the
\* launcher lies there, whatever lies in the two Program Files places, and
\* it returns None exactly when the launcher lies in none of the three.
C11_ProgramDataFirst ==
    Located =>
        /\ HasLauncher(DefaultModapiPath(ToolPrefix)) => op.out = DefaultModapiPath(ToolPrefix)
        /\ op.out = Absent <=> \A d \in ModapiDirs : ~HasLauncher(d)

\* C11, its case: the launcher lies in all three places and the ProgramData
\* place was returned
C11_Witness ==
    /\ Located
    /\ \A d \in ModapiDirs : HasLauncher(d)
    /\ op.out = DefaultModapiPath(ToolPrefix)

\* the launcher lies in both Program Files places and not under ProgramData
OnlyProgramFiles ==
    /\ ~HasLauncher(DefaultModapiPath(ToolPrefix))
    /\ HasLauncher(AltPath1(ToolPrefix))
    /\ HasLauncher(AltPath2(ToolPrefix))

\* C12 as stated: when the launcher lies in both Program Files places and
\* not under ProgramData, the place returned is "Program Files", not
\* "Program Files (x86)".
C12_ProgramFilesBeforeX86 ==
    (Located /\ OnlyProgramFiles) => op.out = AltPath2(ToolPrefix)

\* C12 as amended: when the launcher lies in both Program Files places and
\* not under ProgramData, the place returned is "Program Files (x86)", not
\* "Program Files": the (x86) place is looked at first.
C12_X86BeforeProgramFiles ==
    (Located /\ OnlyProgramFiles) => op.out = AltPath1(ToolPrefix)

\* C12, its case: both Program Files places hold the launcher and the
\* (x86) one was returned
C12_Witness ==
    /\ Located
    /\ OnlyProgramFiles
    /\ op.out = AltPath1(ToolPrefix)


\* create_launch_scripts was called and has returned
Scripted == op.name = "create_launch_scripts"

\* the root create_launch_scripts works on: the one it was given, or the
\* one find_modapi_installation gives it
ScriptRoot ==
    IF op.dir /= Absent THEN op.dir ELSE FindModapiInstallation(guestFiles, ToolPrefix).out

\* the executables that exist under the root, and those that do not, in
\* the order of the list
PresentExes ==
    LET Has(i) == (ScriptRoot \o <<Executables[i].exe>>) \in guestFiles
    IN SelectSeq(<<1, 2, 3>>, Has)
MissingExes ==
    LET Lacks(i) == (ScriptRoot \o <<Executables[i].exe>>) \notin guestFiles
    IN SelectSeq(<<1, 2, 3>>, Lacks)

\* the script names, and the executable names, of a list of executables
ScriptsOf(ixs) == [i \in 1..Len(ixs) |-> Executables[ixs[i]].script]
ExesOf(ixs) == [i \in 1..Len(ixs) |-> Executables[ixs[i]].exe]

\* every script the call created is a file written by this call, executable,
\* also where a stale file of that name lay; every other file is as it was
ScriptsWritten ==
    /\ DOMAIN scripts = DOMAIN op.before \cup Range(op.created)
    /\ \A n \in Range(op.created) : scripts[n].mode = "755" /\ scripts[n] /= StaleScript
    /\ \A n \in DOMAIN op.before \ Range(op.created) : scripts[n] = op.before[n]

\* C13 as stated: create_launch_scripts creates one script for exactly those
\* of the three binaries that exist under the root and skips the others, it
\* reports success if and only if it created at least one script, and a
\* script that existed is overwritten.
C13_ScriptPerBinary ==
    (Scripted /\ ScriptRoot /= Absent) =>
        /\ op.created = ScriptsOf(PresentExes)
        /\ op.skipped = ExesOf(MissingExes)
        /\ op.out = True <=> op.created /= <<>>
        /\ ScriptsWritten

\* C13 as amended: with a runtime resolved and no write raising,
\* create_launch_scripts creates one script for exactly those of the three
\* binaries that exist under the root and skips the others, and it reports
\* success if and only if it created at least one; without a runtime it
\* creates none and reports failure; when a write raises it reports failure
\* with the scripts written before; a script that existed is overwritten.
C13_ScriptPerBinaryUnlessRaised ==
    (Scripted /\ ScriptRoot /= Absent) =>
        /\ ScriptsWritten
        /\ op.raised <=> (op.proton = "none" \/ op.failAt \in 1..Len(PresentExes))
        /\ ~op.raised =>
              /\ op.created = ScriptsOf(PresentExes)
              /\ op.skipped = ExesOf(MissingExes)
              /\ op.out = True <=> op.created /= <<>>
        /\ op.raised =>
              /\ op.out = False
              /\ op.err /= <<>>
              /\ IsPrefix(op.created, ScriptsOf(PresentExes))
              /\ op.created = IF op.proton = "none" THEN <<>>
                              ELSE SubSeq(ScriptsOf(PresentExes), 1, op.failAt - 1)

\* C13, its case: of the three binaries only the launcher exists, a stale
\* launcher script lay in the directory, and the call created that one
\* script, skipped the two others and reported success
C13_Witness ==
    /\ Scripted
    /\ ScriptRoot /= Absent
    /\ PresentExes = <<1>>
    /\ Executables[1].script \in DOMAIN op.before
    /\ op.created = <<Executables[1].script>>
    /\ op.skipped = <<InstallerExe, UninstallerExe>>
    /\ op.out = True


\* the lines of a text, one after the other
RECURSIVE Flatten(_)
Flatten(lines) == IF lines = <<>> THEN <<>> ELSE Head(lines) \o Flatten(Tail(lines))

\* how often piece x occurs in text t
Count(t, x) == Cardinality({i \in 1..Len(t) : t[i] = x})

\* how many lines of a document open a key block
Headers(doc) == Cardinality({i \in 1..Len(doc) : doc[i] /= <<>> /\ doc[i][1] = "["})

\* the registry document of a path was built
Built == op.name = "create_spore_registry"

\* C14 as stated: for every install path, the registry document holds
\* exactly four key-block headers and exactly one %CDKEY% token.
C14_FourHeadersOneCdkey ==
    Built =>
        /\ Headers(op.content) = 4
        /\ Count(Flatten(op.content), "%CDKEY%") = 1

\* C14 as amended: for every install path that does not itself contain the
\* token, the registry document holds exactly four key-block headers and
\* exactly two %CDKEY% tokens: the default value of the ergc key and the
\* ProductKey value of the SPORE_EP1 key.
C14_FourHeadersTwoCdkeys ==
    (Built /\ Count(op.path, "%CDKEY%") = 0) =>
        /\ Headers(op.content) = 4
        /\ Count(Flatten(op.content), "%CDKEY%") = 2
        /\ \E i, j \in 1..Len(op.content) :
              /\ i < j
              /\ op.content[i] = <<"@=\"", "%CDKEY%", "\"">>
              /\ op.content[j] = <<"\"ProductKey\"=\"", "%CDKEY%", "\"">>

\* C14, its case: the document of a path of several components, without
\* the token, holds the token twice
C14_Witness ==
    /\ Built
    /\ Count(op.path, "%CDKEY%") = 0
    /\ Count(op.path, "/") >= 2
    /\ Count(op.path, "a") >= 2
    /\ Count(Flatten(op.content), "%CDKEY%") = 2

\* a path was translated in both modes
Translated == op.name = "convert_to_wine_path"

\* every maximal run of backslashes in t has even length
EvenRuns(t) ==
    \A i \in 1..Len(t) :
        (t[i] = "\\" /\ (i = 1 \/ t[i - 1] /= "\\")) =>
            LET j == CHOOSE k \in i..Len(t) :
                         /\ \A m \in i..k : t[m] = "\\"
                         /\ (k = Len(t) \/ t[k + 1] /= "\\")
            IN (j - i + 1) % 2 = 0

\* no two adjacent backslashes in t
NoDoubled(t) == \A i \in 1..(Len(t) - 1) : ~(t[i] = "\\" /\ t[i + 1] = "\\")

\* C15: for every absolute host path, every maximal run of backslashes in
\* its registry-mode translation has even length, and its display-mode
\* translation has no two adjacent backslashes.
C15_EscapingModes ==
    Translated =>
        /\ EvenRuns(op.registry)
        /\ NoDoubled(op.display)


\* the call made before run r's was on the same prefix, found no marker
\* and wrote none: its installation failed, or it found no runtime
PrevLeftUnmarked(r) ==
    /\ prev[r] /= Absent
    /\ prev[r][1].name = NameOf(r)
    /\ prev[r][1].unmarked
    /\ ~prev[r][1].marked

\* run r found no marker and then did not get the dependencies installed
DependenciesFailed(r) ==
    \E i \in 1..Len(trace[r]) :
        \/ trace[r][i] \in {Call("install_dependencies", "fail"),
                            Call("install_dependencies", "raise")}
        \/ /\ i > 1
           /\ trace[r][i - 1] = Call("marker_exists", "no")
           /\ trace[r][i] = Call("get_active_proton_path", "none")

\* a marker that appears is the one of a run whose last call was a
\* successful _install_dependencies_unified
MarkedAfterInstall ==
    \A n \in markers' \ markers :
        \E r \in Runs :
            /\ NameOf(r) = n
            /\ pc[r] = "writemarker"
            /\ trace[r] /= <<>>
            /\ trace[r][Len(trace[r])] = Call("install_dependencies", "ok")

\* a run whose installation failed leaves no marker, and the call after a
\* call that left no marker finds none and installs again
FailureLeavesUnmarked ==
    \A r \in Runs :
        /\ DependenciesFailed(r) => (pc[r] = "done" /\ NameOf(r) \notin markers)
        /\ PrevLeftUnmarked(r) =>
              /\ \A i \in 1..Len(trace[r]) :
                    trace[r][i].op = "marker_exists" => trace[r][i].out = "no"
              /\ \A i \in 2..Len(trace[r]) :
                    (/\ trace[r][i - 1] = Call("marker_exists", "no")
                     /\ trace[r][i] = Call("get_active_proton_path", "path"))
                    => (Len(trace[r]) > i /\ trace[r][i + 1].op = "install_dependencies")

\* C16: the marker of a prefix appears only when a run's install delegate
\* has just returned success, so a marker that is present was present
\* initially or follows such a success; a run whose delegate fails or raises,
\* or which finds no runtime, leaves the marker absent, and the next run on
\* that prefix finds it absent and invokes the delegate again.
C16_MarkerOnlyAfterSuccess == []FailureLeavesUnmarked /\ [][MarkedAfterInstall]_vars

\* C16, its case: after a call whose installation failed, the next call
\* installed the dependencies and wrote the marker
C16_Witness ==
    \E r \in Runs :
        /\ PrevLeftUnmarked(r)
        /\ prev[r][1].installs = 1
        /\ \E i \in 1..Len(trace[r]) : trace[r][i] = Call("install_dependencies", "ok")
        /\ \E i \in 1..Len(trace[r]) : trace[r][i] = Call("touch_marker", "ok")
        /\ NameOf(r) \in markers


\* the external delegates of a run: the game locator, the dependency
\* installer, the registry import, the release lookup, the download and
\* the spawn of the installer
Delegates ==
    {"find_all_games", "install_dependencies", "regedit", "get_latest_release",
     "download_file", "popen"}

\* C17: within one run of install() each external delegate is invoked at
\* most once, whatever it answers, and at most one guest process of each
\* mode is spawned: nothing is retried.
C17_NoRetries ==
    \A r \in Runs :
        /\ \A d \in Delegates : Cardinality(CallsOf(trace[r], d)) <= 1
        /\ \A mode \in {"regedit", "installer"} :
              Cardinality({i \in 1..Len(procs[r]) : procs[r][i].mode = mode}) <= 1

\* C17, its case: a run whose registry import timed out and whose download
\* gave no file has returned failure after one call of each
C17_Witness ==
    \E r \in Runs :
        /\ pc[r] = "done"
        /\ result[r] = False
        /\ Cardinality({i \in 1..Len(trace[r]) : trace[r][i] = Call("regedit", "timeout")}) = 1
        /\ Cardinality({i \in 1..Len(trace[r]) : trace[r][i] = Call("download_file", "none")}) = 1
        /\ Cardinality(CallsOf(trace[r], "get_latest_release")) = 1


\* no step removes a prefix directory or a marker
SandboxKept == dirs \subseteq dirs' /\ markers \subseteq markers'

\* a run that finds its prefix directory does not create it, and the
\* directory of a run that is past step 2 exists
SandboxReused ==
    \A r \in Runs :
        /\ (\E i \in 1..Len(trace[r]) : trace[r][i] = Call("prefix_exists", "yes"))
              => CallsOf(trace[r], "mkdir") = {}
        /\ (\E i \in 1..Len(trace[r]) :
               trace[r][i] \in {Call("prefix_exists", "yes"), Call("mkdir", "ok")})
              => NameOf(r) \in dirs

\* C19: install() never deletes or resets the sandbox: a prefix directory
\* that exists exists in every later state, a run that finds it uses it
\* without creating it again, and a marker that is present stays present.
C19_SandboxNeverReset == []SandboxReused /\ [][SandboxKept]_vars

\* C19, its case: a call on the prefix that the call before it had marked
\* found the directory and the marker, and has returned
C19_Witness ==
    \E r \in Runs :
        /\ prev[r] /= Absent
        /\ prev[r][1].name = NameOf(r)
        /\ prev[r][1].marked
        /\ pc[r] = "done"
        /\ \E i \in 1..Len(trace[r]) : trace[r][i] = Call("prefix_exists", "yes")
        /\ \E i \in 1..Len(trace[r]) : trace[r][i] = Call("marker_exists", "yes")
        /\ NameOf(r) \in dirs \cap markers


\* the markers that were present before the first of the calls
InitialMarkers == {n \in markers : \A r \in DOMAIN start : n \in start[r].markers}

\* call r has passed outcome out of operation o
Passed(r, o, out) == \E i \in 1..Len(trace[r]) : trace[r][i] = Call(o, out)

\* both calls have returned
BothReturned == \A r \in DOMAIN pc : pc[r] = "done"

\* what no interleaving undoes: the directory of a call that found or made
\* it exists, and the marker of a call that wrote it is present
NothingUndone ==
    \A r \in DOMAIN pc :
        /\ (Passed(r, "prefix_exists", "yes") \/ Passed(r, "mkdir", "ok")) => NameOf(r) \in dirs
        /\ Passed(r, "touch_marker", "ok") => NameOf(r) \in markers

\* C18 as stated: whatever the interleaving of two calls on one prefix, the
\* directory a call found or made still exists, a marker that was written
\* (once or twice) is present, and when both calls have returned the marker
\* is present if and only if it was present initially or the install
\* delegate of one of the calls succeeded.
C18_MarkerIffInstalled ==
    /\ NothingUndone
    /\ BothReturned =>
          \A r \in DOMAIN pc :
              NameOf(r) \in markers <=>
                  \/ NameOf(r) \in InitialMarkers
                  \/ \E q \in DOMAIN pc : Passed(q, "install_dependencies", "ok")

\* C18 as amended: whatever the interleaving of two calls on one prefix, the
\* directory a call found or made still exists, a marker that was written
\* (once or twice) is present, and when both calls have returned the marker
\* is present if and only if it was present initially or the install
\* delegate of one of the calls succeeded and that call's touch() of the
\* marker did not raise.
C18_MarkerIffWritten ==
    /\ NothingUndone
    /\ BothReturned =>
          \A r \in DOMAIN pc :
              NameOf(r) \in markers <=>
                  \/ NameOf(r) \in InitialMarkers
                  \/ \E q \in DOMAIN pc :
                        /\ Passed(q, "install_dependencies", "ok")
                        /\ Passed(q, "touch_marker", "ok")

\* C18, its case: both calls found the marker absent, both had the
\* dependencies installed and both wrote the marker, which is present
C18_Witness ==
    /\ DOMAIN pc = ConcRuns
    /\ BothReturned
    /\ \A r \in ConcRuns :
          /\ Passed(r, "marker_exists", "no")
          /\ Passed(r, "install_dependencies", "ok")
          /\ Passed(r, "touch_marker", "ok")
          /\ NameOf(r) \in markers
          /\ NameOf(r) \in dirs


\* the lines with which install() describes the failure it returns
FailureLines ==
    {"ERROR: Spore not found. Please install Spore first.",
     "ERROR: No active Proton-GE version",
     "ERROR: Failed to install dependencies",
     "ERROR: Failed to download installer",
     "ERROR: Installer failed",
     "Error: e"}

\* how many calls of run r ended in an exception or a timeout
Raises(r) == Cardinality({i \in 1..Len(trace[r]) : trace[r][i].out \in {"raise", "timeout"}})

\* C20: an exception of a collaborator or of a guest process leaves none of
\* install(), create_spore_registry, download_modapi_installer,
\* launch_installer_with_instructions and create_launch_scripts: each
\* catches it, logs it to the logger and returns False or None, so install()
\* and the helpers return only True or False; and a call of install() that
\* returns False has sent a line that describes the failure to the log
\* callback, where the caller attached one.
C20_NoExceptionEscapes ==
    /\ \A r \in Runs :
          /\ result[r] \in {None, True, False}
          /\ pc[r] = "done" => result[r] \in {True, False}
          /\ regOk[r] \in {None, True, False}
          /\ Raises(r) <= Len(errLog[r])
          /\ (Passed(r, "regedit", "raise") \/ Passed(r, "regedit", "timeout"))
                => (regOk[r] = False /\ pc[r] \in {"fetch", "launch", "done"})
          /\ (\E o \in {"find_all_games", "mkdir", "install_dependencies", "touch_marker",
                        "get_latest_release", "download_file", "popen"} : Passed(r, o, "raise"))
                => (pc[r] = "done" /\ result[r] = False)
          /\ (pc[r] = "done" /\ result[r] = False /\ arg[r].log_cb)
                => \E i \in 1..Len(sinkLog[r]) : sinkLog[r][i] \in FailureLines
    /\ Scripted =>
          /\ op.out \in {True, False}
          /\ op.raised => (op.out = False /\ op.err /= <<>>)

\* C20, its case: in one call with a log callback the registry import
\* raised and create_spore_registry returned False, then the spawn of the
\* installer raised and install() returned False with the failure logged
C20_Witness ==
    \E r \in Runs :
        /\ arg[r].log_cb
        /\ Passed(r, "regedit", "raise")
        /\ regOk[r] = False
        /\ Passed(r, "popen", "raise")
        /\ pc[r] = "done"
        /\ result[r] = False
        /\ \E i \in 1..Len(sinkLog[r]) : sinkLog[r][i] = "ERROR: Installer failed"


\* the place of the one call of operation o with outcome out in run r
PlaceOf(r, o, out) == CHOOSE i \in 1..Len(trace[r]) : trace[r][i] = Call(o, out)

\* C22: install() returns True exactly when it has emitted progress 100,
\* and in every such run the prefix directory exists, the dependency marker
\* is present, the installer was downloaded, and the guest installer was
\* spawned exactly once, after the download and after create_spore_registry
\* had made its import attempt and returned.
C22_SuccessPostcondition ==
    \A r \in Runs :
        /\ result[r] = True <=> 100 \in Range(emitted[r])
        /\ result[r] = True =>
              /\ pc[r] = "done"
              /\ NameOf(r) \in dirs
              /\ NameOf(r) \in markers
              /\ Downloaded(r)
              /\ Cardinality(CallsOf(trace[r], "popen")) = 1
              /\ Spawned(r)
              /\ Cardinality({i \in 1..Len(procs[r]) : procs[r][i].mode = "installer"}) = 1
              /\ PlaceOf(r, "download_file", "ok") < PlaceOf(r, "popen", "ok")
              /\ regOk[r] \in {True, False}
              /\ \A i \in CallsOf(trace[r], "regedit") : i < PlaceOf(r, "download_file", "ok")

\* C22, its case: a run that made the prefix, installed the dependencies,
\* imported the registry, downloaded and started the installer returned
\* True with progress 100
C22_Witness ==
    \E r \in Runs :
        /\ result[r] = True
        /\ emitted[r][Len(emitted[r])] = 100
        /\ Passed(r, "mkdir", "ok")
        /\ Passed(r, "touch_marker", "ok")
        /\ Passed(r, "regedit", "exit0")
        /\ Passed(r, "popen", "ok")


\* the states of the installers run r started
InstallerStates(r) ==
    {procs[r][i].state : i \in {j \in 1..Len(procs[r]) : procs[r][j].mode = "installer"}}

\* what install() left when it returned: its result, its progress and the files
Outcome == <<result, emitted, sink, sinkLog, dirs, markers, tmpFiles>>

\* a run that started the installer has returned True with the whole
\* progress sequence, in whatever state the installer is
ReturnedOnSpawn ==
    \A r \in Runs :
        Spawned(r) =>
            /\ pc[r] = "done"
            /\ result[r] = True
            /\ emitted[r] = ProgressSequence
            /\ InstallerStates(r) \subseteq {"running"} \cup GuestFates

\* a step in which a guest process changes state changes nothing of what
\* install() left
GuestUnobserved == procs' /= procs /\ pc' = pc => Outcome' = Outcome

\* C21: the launch is fire-and-forget: a run that has started the installer
\* has returned True with the whole progress sequence while the installer
\* may still run, and whatever the installer does afterwards (runs on,
\* exits 0, crashes) is a step that changes neither the result nor the
\* progress nor the files, so runs that differ only in it end alike.
C21_FireAndForget == []ReturnedOnSpawn /\ [][GuestUnobserved]_vars

\* C21, its case: the installer has crashed after install() returned True
C21_Witness ==
    \E r \in Runs :
        /\ Spawned(r)
        /\ "crashed" \in InstallerStates(r)
        /\ result[r] = True
        /\ emitted[r] = ProgressSequence

====
